---- MODULE Spec2Model ----
(***************************************************************************)
(* A model of the HiveSim rules engine (src/src/hivesim/game.py): cube hex *)
(* coordinates, the board with its stacks, the per-piece move generators,  *)
(* the turn validator and Game.apply_turn.                                 *)
(*                                                                         *)
(* Every step is one call of Game.apply_turn with a Turn the caller chose, *)
(* followed by the caller's check_queen_placement_loss.  A call that       *)
(* raises leaves whatever it had already written; how the call ended is    *)
(* recorded in `result`.                                                   *)
(***************************************************************************)
EXTENDS Integers, Sequences, FiniteSets, TLC

VARIABLES
    turn,           \* GameState.turn
    current_team,   \* GameState.current_team
    white_pieces,   \* GameState.white_player.pieces (a list of piece ids)
    black_pieces,   \* GameState.black_player.pieces
    hex,            \* piece id -> GamePiece.hex_coordinates (NoHex = None)
    location,       \* piece id -> GamePiece.location
    z_level,        \* piece id -> GamePiece.z_level
    pieces_below,   \* piece id -> GamePiece.pieces_below
    pieces_above,   \* piece id -> GamePiece.pieces_above
    stacks,         \* BoardState.stacks: coordinate -> list of piece ids
    bpieces,        \* BoardState.pieces: its keys, in insertion order
    history,        \* Game.history, as the number of turns appended
    win,            \* the value apply_turn last got from check_win_condition
    result,         \* how the last apply_turn call ended: "ok" or the error
    queen_loss,     \* the value check_queen_placement_loss last returned
    answer          \* the last query of the board: function, arguments, value

vars == <<turn, current_team, white_pieces, black_pieces, hex, location, z_level,
          pieces_below, pieces_above, stacks, bpieces, history, win, result,
          queen_loss, answer>>

(***************************************************************************)
(* Bounds of the model.                                                    *)
(***************************************************************************)
\* apply_turn is not called once the turn counter has reached MaxTurn
\* (MaxLateTurn in the games that start at a player's fourth turn).
MaxTurn == 7
MaxLateTurn == 10
\* Target coordinates are drawn from the first MaxCells hexes of TargetHexes.
MaxCells == 4
\* The boards check_win_condition is asked about fill hexes among the first
\* WinCells of TargetHexes.
WinCells == 10
\* The boards the move generators are asked about fill hexes among the first
\* MoveCells of TargetHexes.
MoveCells == 8
\* The end game runs until the turn counter reaches EndTurn, its turns aim at
\* the first EndCells of TargetHexes.
EndTurn == 16
EndCells == 9
\* q, r and s of the coordinates constructed lie in -HexRange..HexRange
HexRange == 2

(***************************************************************************)
(* Values.                                                                 *)
(***************************************************************************)
NoId == -1          \* piece_id = None
UnknownId == 0      \* an id that names no piece of the game
NoHex == <<>>       \* hex_coordinates = None
NoTeam == "None"    \* a check that returns None
NoType == "None"    \* piece_type = None
\* no function has been asked about the board
NoAnswer == [fn |-> "none", arg |-> <<>>, value |-> {}]

\* The pieces a game may hold, with their class and team.
\*   1 white QueenBee, 2 white Beetle, 3 black QueenBee, 4 black Beetle,
\*   5..9 white Ant, 10..14 black Ant, 15 white Grasshopper,
\*   16 black Grasshopper, 17 white Spider, 18 black Spider
PieceIds == 1..18

PieceClass(p) ==
    CASE p \in {1, 3} -> "QueenBee"
      [] p \in {2, 4} -> "Beetle"
      [] p \in {15, 16} -> "Grasshopper"
      [] p \in {17, 18} -> "Spider"
      [] OTHER -> "Ant"

PieceTeam(p) == IF p \in {1, 2, 15, 17} \cup (5..9) THEN "white" ELSE "black"

Teams == {"white", "black"}

Other(team) == IF team = "white" THEN "black" ELSE "white"

Range(s) == {s[i] : i \in 1..Len(s)}

\* list.remove(x): the list without its first x.
RECURSIVE ListRemove(_, _)
ListRemove(s, x) ==
    IF s = <<>> THEN <<>>
    ELSE IF Head(s) = x THEN Tail(s)
    ELSE <<Head(s)>> \o ListRemove(Tail(s), x)

(***************************************************************************)
(* HexCoordinate.                                                          *)
(***************************************************************************)
Origin == <<0, 0, 0>>

directions ==
    << <<1, -1, 0>>, <<1, 0, -1>>, <<0, 1, -1>>, <<-1, 1, 0>>, <<-1, 0, 1>>, <<0, -1, 1>> >>

HexAdd(c, d) == <<c[1] + d[1], c[2] + d[2], c[3] + d[3]>>

\* HexCoordinate.get_adjacent_hexes, in the order of `directions`
get_adjacent_hexes(c) == [i \in 1..6 |-> HexAdd(c, directions[i])]

AdjacentSet(c) == Range(get_adjacent_hexes(c))

Abs(n) == IF n < 0 THEN -n ELSE n

\* are_hexes_adjacent, had it asked for a distance of at most 2
are_hexes_adjacent_WithinTwo(a, b) ==
    Abs(a[1] - b[1]) + Abs(a[2] - b[2]) + Abs(a[3] - b[3]) <= 2

\* MovementHelper.are_hexes_adjacent
are_hexes_adjacent(a, b) ==
    Abs(a[1] - b[1]) + Abs(a[2] - b[2]) + Abs(a[3] - b[3]) = 2

\* The hexes target coordinates are drawn from: the origin, then its ring
\* (two opposite hexes first), then the next ring (first the three hexes
\* next to TargetHexes[2]).
TargetHexes ==
    << <<0, 0, 0>>,
       <<1, -1, 0>>, <<-1, 1, 0>>, <<1, 0, -1>>, <<0, 1, -1>>, <<-1, 0, 1>>, <<0, -1, 1>>,
       <<2, -2, 0>>, <<2, -1, -1>>, <<1, -2, 1>>, <<2, 0, -2>>, <<1, 1, -2>>, <<0, 2, -2>>,
       <<-1, 2, -1>>, <<-2, 2, 0>>, <<-2, 1, 1>>, <<-2, 0, 2>>, <<-1, -1, 2>>, <<0, -2, 2>> >>

Cells ==
    {TargetHexes[i] :
        i \in 1..(IF MaxCells < Len(TargetHexes) THEN MaxCells ELSE Len(TargetHexes))}

(***************************************************************************)
(* The game as a value: what the engine's functions read and write.        *)
(***************************************************************************)
World ==
    [turn |-> turn, current_team |-> current_team,
     white_pieces |-> white_pieces, black_pieces |-> black_pieces,
     hex |-> hex, location |-> location, z_level |-> z_level,
     pieces_below |-> pieces_below, pieces_above |-> pieces_above,
     stacks |-> stacks, bpieces |-> bpieces, history |-> history, win |-> win]

\* GameState.all_pieces: the ids of both players' pieces
all_pieces(w) == Range(w.white_pieces) \cup Range(w.black_pieces)

PlayerPieces(w, team) == IF team = "white" THEN w.white_pieces ELSE w.black_pieces

\* GamePiece.is_pinned
is_pinned(w, p) == Len(w.pieces_above[p]) > 0

\* The ids of board_state.pieces whose piece has location 'board', in dict order
RECURSIVE SelectSeqBy(_, _)
SelectSeqBy(s, S) ==
    IF s = <<>> THEN <<>>
    ELSE IF Head(s) \in S THEN <<Head(s)>> \o SelectSeqBy(Tail(s), S)
    ELSE SelectSeqBy(Tail(s), S)

OnBoardIds(w) == {p \in Range(w.bpieces) : w.location[p] = "board"}

\* GameState.get_occupied_spaces (as a set; its callers build sets from it)
GameOccupied(w) == {w.hex[p] : p \in OnBoardIds(w)}

\* MovementHelper.get_occupied_spaces
get_occupied_spaces(w, exclude_piece_id, ground_level_only) ==
    {w.hex[p] : p \in {x \in OnBoardIds(w) :
                          /\ x # exclude_piece_id
                          /\ (ground_level_only \/ w.z_level[x] = 0)}}

(***************************************************************************)
(* MovementHelper.                                                         *)
(***************************************************************************)
\* can_slide_to_adjacent, had one occupied mutual neighbour closed the gate
can_slide_to_adjacent_OneCloses(from_hex, to_hex, occupied) ==
    IF ~are_hexes_adjacent(from_hex, to_hex)
    THEN [raised |-> TRUE, value |-> FALSE]
    ELSE [raised |-> FALSE,
          value |-> AdjacentSet(from_hex) \cap AdjacentSet(to_hex) \cap occupied = {}]

\* MovementHelper.can_slide_to_adjacent: raises on hexes that are not adjacent,
\* else whether fewer than two of the mutual neighbours are occupied.
can_slide_to_adjacent(from_hex, to_hex, occupied) ==
    IF ~are_hexes_adjacent(from_hex, to_hex)
    THEN [raised |-> TRUE, value |-> FALSE]
    ELSE LET mutual_neighbors == AdjacentSet(from_hex) \cap AdjacentSet(to_hex)
             occupied_mutual == mutual_neighbors \cap occupied
         IN  [raised |-> FALSE, value |-> ~(Cardinality(occupied_mutual) >= 2)]

\* The BFS of hive_stays_connected: the ids reached from `visited`, where a hex
\* leads to the one id coord_to_pid keeps for it.
RECURSIVE HiveBfs(_, _, _)
HiveBfs(w, coord_to_pid, visited) ==
    LET found == {coord_to_pid[c] :
                     c \in {a \in UNION {AdjacentSet(w.hex[p]) : p \in visited} :
                               a \in DOMAIN coord_to_pid}}
    IN  IF found \subseteq visited THEN visited
        ELSE HiveBfs(w, coord_to_pid, visited \cup found)

\* MovementHelper.hive_stays_connected
hive_stays_connected(w, piece_id) ==
    LET pieces_on_board == SelectSeqBy(w.bpieces, OnBoardIds(w) \ {piece_id})
        \* a later id of the dict overwrites an earlier one on the same hex
        coord_to_pid ==
            [c \in {w.hex[pieces_on_board[i]] : i \in 1..Len(pieces_on_board)} |->
                LET last == CHOOSE i \in 1..Len(pieces_on_board) :
                                /\ w.hex[pieces_on_board[i]] = c
                                /\ \A j \in (i + 1)..Len(pieces_on_board) :
                                       w.hex[pieces_on_board[j]] # c
                IN  pieces_on_board[last]]
    IN  IF Len(pieces_on_board) <= 1 THEN TRUE
        ELSE Cardinality(HiveBfs(w, coord_to_pid, {pieces_on_board[1]}))
                 = Len(pieces_on_board)

\* get_valid_slide_positions, had it not skipped the occupied hexes
get_valid_slide_positions_OntoOccupied(current, occupied) ==
    {a \in AdjacentSet(current) :
        /\ can_slide_to_adjacent(current, a, occupied).value
        /\ AdjacentSet(a) \cap occupied # {}}

\* GameState.get_valid_slide_positions (as a set)
get_valid_slide_positions(current, occupied) ==
    {a \in AdjacentSet(current) :
        /\ a \notin occupied
        /\ can_slide_to_adjacent(current, a, occupied).value
        /\ AdjacentSet(a) \cap occupied # {}}

\* The hexes reached from `visited` by repeated valid slides.
RECURSIVE SlideClosure(_, _)
SlideClosure(visited, occupied) ==
    LET found == UNION {get_valid_slide_positions(c, occupied) : c \in visited}
    IN  IF found \subseteq visited THEN visited
        ELSE SlideClosure(visited \cup found, occupied)

\* MovementHelper.get_path: a path is found iff `end` is reached by valid slides.
PathExists(w, start, end, piece_id) ==
    end \in SlideClosure({start}, get_occupied_spaces(w, piece_id, TRUE))

\* GameState.check_freedom_of_movement
check_freedom_of_movement(w, start, end, piece_id) ==
    IF start = end THEN TRUE
    ELSE LET occupied == get_occupied_spaces(w, piece_id, TRUE)
         IN  IF are_hexes_adjacent(start, end)
             THEN can_slide_to_adjacent(start, end, occupied).value
             ELSE PathExists(w, start, end, piece_id)

(***************************************************************************)
(* The pieces' get_valid_moves, as sets of coordinates.                    *)
(***************************************************************************)
\* QueenBee.get_valid_moves, had it not asked hive_stays_connected
QueenBeeMoves_NoHiveCheck(w, p) ==
    IF w.location[p] # "board" THEN {}
    ELSE IF is_pinned(w, p) THEN {}
    ELSE LET occupied == get_occupied_spaces(w, p, TRUE)
         IN  {a \in AdjacentSet(w.hex[p]) :
                 /\ a \notin occupied
                 /\ check_freedom_of_movement(w, w.hex[p], a, p)}

\* QueenBee.get_valid_moves
QueenBeeMoves(w, p) ==
    IF w.location[p] # "board" THEN {}
    ELSE IF is_pinned(w, p) THEN {}
    ELSE IF ~hive_stays_connected(w, p) THEN {}
    ELSE LET occupied == get_occupied_spaces(w, p, TRUE)
         IN  {a \in AdjacentSet(w.hex[p]) :
                 /\ a \notin occupied
                 /\ check_freedom_of_movement(w, w.hex[p], a, p)}

\* Beetle.get_valid_moves, had a beetle that holds the hive together stayed put
BeetleMoves_NoClimbWhenKey(w, p) ==
    IF w.location[p] # "board" THEN {}
    ELSE IF is_pinned(w, p) THEN {}
    ELSE IF ~hive_stays_connected(w, p) THEN {}
    ELSE LET occupied == get_occupied_spaces(w, p, FALSE)
         IN  {a \in AdjacentSet(w.hex[p]) :
                 \/ a \in occupied
                 \/ check_freedom_of_movement(w, w.hex[p], a, p)}

\* Beetle.get_valid_moves
BeetleMoves(w, p) ==
    IF w.location[p] # "board" THEN {}
    ELSE IF is_pinned(w, p) THEN {}
    ELSE LET occupied == get_occupied_spaces(w, p, FALSE)
         IN  IF ~hive_stays_connected(w, p)
             THEN {a \in AdjacentSet(w.hex[p]) : a \in occupied}
             ELSE {a \in AdjacentSet(w.hex[p]) :
                      \/ a \in occupied
                      \/ check_freedom_of_movement(w, w.hex[p], a, p)}

\* Ant.get_valid_moves, had the search stopped after the first slide
AntMoves_OneSlide(w, p) ==
    IF w.location[p] # "board" THEN {}
    ELSE IF is_pinned(w, p) THEN {}
    ELSE IF ~hive_stays_connected(w, p) THEN {}
    ELSE get_valid_slide_positions(w.hex[p], get_occupied_spaces(w, p, TRUE))

\* Ant.get_valid_moves
AntMoves(w, p) ==
    IF w.location[p] # "board" THEN {}
    ELSE IF is_pinned(w, p) THEN {}
    ELSE IF ~hive_stays_connected(w, p) THEN {}
    ELSE SlideClosure({w.hex[p]}, get_occupied_spaces(w, p, TRUE)) \ {w.hex[p]}

\* The Grasshopper's while loop: the first hex from c on, along d, that is
\* not occupied
RECURSIVE Land(_, _, _)
Land(c, d, occupied) ==
    IF c \in occupied THEN Land(HexAdd(c, d), d, occupied) ELSE c

\* Grasshopper.get_valid_moves, had it not asked for a jumped piece
GrasshopperMoves_NoJumpNeeded(w, p) ==
    IF w.location[p] # "board" THEN {}
    ELSE IF is_pinned(w, p) THEN {}
    ELSE IF ~hive_stays_connected(w, p) THEN {}
    ELSE LET occupied == get_occupied_spaces(w, p, TRUE)
         IN  {Land(HexAdd(w.hex[p], directions[i]), directions[i], occupied) :
                 i \in 1..6}

\* Grasshopper.get_valid_moves
GrasshopperMoves(w, p) ==
    IF w.location[p] # "board" THEN {}
    ELSE IF is_pinned(w, p) THEN {}
    ELSE IF ~hive_stays_connected(w, p) THEN {}
    ELSE LET occupied == get_occupied_spaces(w, p, TRUE)
         IN  {Land(HexAdd(w.hex[p], directions[i]), directions[i], occupied) :
                 i \in {j \in 1..6 : HexAdd(w.hex[p], directions[j]) \in occupied}}

\* dfs of Spider.get_valid_moves: the results it adds from `current` on
RECURSIVE SpiderDfs(_, _, _, _, _)
SpiderDfs(start, current, depth, visited, occupied) ==
    IF depth = 3
    THEN IF current # start THEN {current} ELSE {}
    ELSE UNION {SpiderDfs(start, adj, depth + 1, visited \cup {adj}, occupied) :
                   adj \in {a \in AdjacentSet(current) :
                               /\ a \notin occupied
                               /\ a \notin visited
                               /\ can_slide_to_adjacent(current, a, occupied).value
                               /\ AdjacentSet(a) \cap occupied # {}}}

\* Spider.get_valid_moves, had the spider slid any number of steps
SpiderMoves_AnyLength(w, p) ==
    IF w.location[p] # "board" THEN {}
    ELSE IF is_pinned(w, p) THEN {}
    ELSE IF ~hive_stays_connected(w, p) THEN {}
    ELSE SlideClosure({w.hex[p]}, get_occupied_spaces(w, p, TRUE)) \ {w.hex[p]}

\* Spider.get_valid_moves
SpiderMoves(w, p) ==
    IF w.location[p] # "board" THEN {}
    ELSE IF is_pinned(w, p) THEN {}
    ELSE IF ~hive_stays_connected(w, p) THEN {}
    ELSE SpiderDfs(w.hex[p], w.hex[p], 0, {w.hex[p]},
                   get_occupied_spaces(w, p, TRUE))

\* <piece>.get_valid_moves, by the piece's class
get_valid_moves(w, p) ==
    CASE PieceClass(p) = "QueenBee" -> QueenBeeMoves(w, p)
      [] PieceClass(p) = "Beetle" -> BeetleMoves(w, p)
      [] PieceClass(p) = "Grasshopper" -> GrasshopperMoves(w, p)
      [] PieceClass(p) = "Spider" -> SpiderMoves(w, p)
      [] OTHER -> AntMoves(w, p)

\* <piece>.can_move_to: membership in get_valid_moves
can_move_to(w, p, target) == target \in get_valid_moves(w, p)

(***************************************************************************)
(* BoardState.                                                             *)
(***************************************************************************)
Last(s) == s[Len(s)]

\* BoardState.add_piece
add_piece(w, piece_id, coordinates) ==
    LET known == IF piece_id \in Range(w.bpieces) THEN w.bpieces
                 ELSE Append(w.bpieces, piece_id)
    IN  IF coordinates \in DOMAIN w.stacks
        THEN LET bottom_piece_id == Last(w.stacks[coordinates])
                 placed == [w EXCEPT
                     !.hex[piece_id] = coordinates,
                     !.location[piece_id] = "board",
                     !.z_level[piece_id] = Len(w.stacks[coordinates]),
                     !.pieces_below[piece_id] = w.stacks[coordinates]]
             IN  [placed EXCEPT
                     !.pieces_above[bottom_piece_id] = Append(@, piece_id),
                     !.stacks[coordinates] = Append(@, piece_id),
                     !.bpieces = known]
        ELSE [w EXCEPT
                 !.hex[piece_id] = coordinates,
                 !.location[piece_id] = "board",
                 !.z_level[piece_id] = 0,
                 !.pieces_below[piece_id] = <<>>,
                 !.stacks = [c \in DOMAIN w.stacks \cup {coordinates} |->
                                IF c = coordinates THEN <<piece_id>> ELSE w.stacks[c]],
                 !.bpieces = known]

\* move_piece's loop over piece.pieces_below, from its i-th entry on:
\* below_piece.pieces_above.remove(piece_id) raises when piece_id is not in it.
RECURSIVE UnlinkBelow(_, _, _, _)
UnlinkBelow(w, piece_id, below, i) ==
    IF i > Len(below) THEN [w |-> w, raised |-> FALSE]
    ELSE LET pid == below[i]
         IN  IF pid \notin Range(w.bpieces)
             THEN UnlinkBelow(w, piece_id, below, i + 1)
             ELSE IF piece_id \notin Range(w.pieces_above[pid])
             THEN [w |-> w, raised |-> TRUE]
             ELSE UnlinkBelow(
                      [w EXCEPT !.pieces_above[pid] = ListRemove(@, piece_id)],
                      piece_id, below, i + 1)

\* move_piece's loop over piece.pieces_above, from its i-th entry on.
RECURSIVE UnlinkAbove(_, _, _, _)
UnlinkAbove(w, piece_id, above, i) ==
    IF i > Len(above) THEN [w |-> w, raised |-> FALSE]
    ELSE LET pid == above[i]
         IN  IF pid \notin Range(w.bpieces)
             THEN UnlinkAbove(w, piece_id, above, i + 1)
             ELSE IF piece_id \notin Range(w.pieces_below[pid])
             THEN [w |-> w, raised |-> TRUE]
             ELSE UnlinkAbove(
                      [w EXCEPT !.pieces_below[pid] = ListRemove(@, piece_id),
                                !.z_level[pid] = @ - 1],
                      piece_id, above, i + 1)

\* move_piece, had it left the piece in its old stack
move_piece_KeepsOldStack(w, piece_id, new_coordinates) ==
    [w |-> add_piece(w, piece_id, new_coordinates), raised |-> FALSE]

\* BoardState.move_piece: the game it leaves, and whether a list.remove raised.
move_piece(w, piece_id, new_coordinates) ==
    LET old_coords == w.hex[piece_id]
    IN  IF old_coords \notin DOMAIN w.stacks
        THEN [w |-> add_piece(w, piece_id, new_coordinates), raised |-> FALSE]
        ELSE IF piece_id \notin Range(w.stacks[old_coords])
        THEN [w |-> w, raised |-> TRUE]
        ELSE LET rest == ListRemove(w.stacks[old_coords], piece_id)
                 removed == [w EXCEPT !.stacks =
                     IF rest = <<>>
                     THEN [c \in DOMAIN w.stacks \ {old_coords} |-> w.stacks[c]]
                     ELSE [w.stacks EXCEPT ![old_coords] = rest]]
                 below == UnlinkBelow(removed, piece_id, w.pieces_below[piece_id], 1)
                 above == UnlinkAbove(below.w, piece_id, below.w.pieces_above[piece_id], 1)
             IN  IF below.raised THEN below
                 ELSE IF above.raised THEN above
                 ELSE [w |-> add_piece(above.w, piece_id, new_coordinates),
                       raised |-> FALSE]

(***************************************************************************)
(* GameState.                                                              *)
(***************************************************************************)
\* The first id of list `s` that is in set S, NoId when there is none
\* (next(... for p in s if ..., None)).
RECURSIVE FirstIn(_, _)
FirstIn(s, S) ==
    IF s = <<>> THEN NoId
    ELSE IF Head(s) \in S THEN Head(s)
    ELSE FirstIn(Tail(s), S)

\* GameState.get_queen: the queen of `team` among all_pieces, NoId when none
get_queen(w, team) ==
    FirstIn(w.white_pieces \o w.black_pieces,
            {p \in PieceIds : PieceClass(p) = "QueenBee" /\ PieceTeam(p) = team})

\* get_available_spaces, had it kept the occupied hexes
get_available_spaces_KeepsOccupied(w) ==
    IF Len(w.bpieces) = 0 THEN {Origin}
    ELSE UNION {AdjacentSet(c) : c \in GameOccupied(w)}

\* GameState.get_available_spaces (as a set)
get_available_spaces(w) ==
    IF Len(w.bpieces) = 0 THEN {Origin}
    ELSE LET occupied == GameOccupied(w)
         IN  UNION {AdjacentSet(c) : c \in occupied} \ occupied

\* Whether a queen on the board has all six adjacent hexes occupied.
QueenSurrounded(w, queen) ==
    /\ queen # NoId
    /\ w.location[queen] = "board"
    /\ AdjacentSet(w.hex[queen]) \subseteq GameOccupied(w)

\* check_win_condition, had it looked at the white queen only
check_win_condition_WhiteQueenOnly(w) ==
    IF QueenSurrounded(w, FirstIn(w.white_pieces, {1, 3})) THEN "black" ELSE NoTeam

\* check_win_condition, had it examined the black queen first
check_win_condition_BlackQueenFirst(w) ==
    IF QueenSurrounded(w, FirstIn(w.black_pieces, {1, 3})) THEN "white"
    ELSE IF QueenSurrounded(w, FirstIn(w.white_pieces, {1, 3})) THEN "black"
    ELSE NoTeam

\* GameState.check_win_condition
check_win_condition(w) ==
    LET white_queen == FirstIn(w.white_pieces, {p \in PieceIds : PieceClass(p) = "QueenBee"})
        black_queen == FirstIn(w.black_pieces, {p \in PieceIds : PieceClass(p) = "QueenBee"})
    IN  IF QueenSurrounded(w, white_queen) THEN "black"
        ELSE IF QueenSurrounded(w, black_queen) THEN "white"
        ELSE NoTeam

(***************************************************************************)
(* Turn.                                                                   *)
(***************************************************************************)
\* piece_type_map of validate_placement
piece_type_map(piece_type) ==
    CASE piece_type \in {"queenbee", "queen"} -> "QueenBee"
      [] piece_type = "beetle" -> "Beetle"
      [] piece_type = "ant" -> "Ant"
      [] piece_type = "grasshopper" -> "Grasshopper"
      [] piece_type = "spider" -> "Spider"
      [] OTHER -> "NoClass"

\* game_state.turn // 2 for white, (game_state.turn - 1) // 2 for black
PlayerTurnNumber(w, player) ==
    IF player = "white" THEN w.turn \div 2 ELSE (w.turn - 1) \div 2

\* The hexes adjacent to the on-board pieces of player `team`
PlayerAdjacent(w, team) ==
    UNION {AdjacentSet(w.hex[p]) :
              p \in {x \in Range(PlayerPieces(w, team)) : w.location[x] = "board"}}

\* PlacementPieceCheck, had it not asked whether the piece is off the board
PlacementPieceCheck_AnyLocation(w, t, piece_id) ==
    IF piece_id \notin all_pieces(w) THEN "Piece not found in player pieces"
    ELSE LET queen == get_queen(w, t.player)
             player_turn_number == PlayerTurnNumber(w, t.player)
         IN  IF queen = NoId THEN "AttributeError"
             ELSE IF player_turn_number = 3 /\ w.location[queen] = "offboard"
             THEN IF PieceClass(piece_id) # "QueenBee"
                  THEN "Queen must be placed on turn 4"
                  ELSE "ok"
             ELSE IF player_turn_number > 3 /\ w.location[queen] = "offboard"
             THEN "failed to place Queen by turn 4"
             ELSE "ok"

\* validate_placement from "check piece is offboard" on (game.py 928-953)
PlacementPieceCheck(w, t, piece_id) ==
    IF piece_id \notin all_pieces(w) THEN "Piece not found in player pieces"
    ELSE IF w.location[piece_id] # "offboard" THEN "Piece is already on the board"
    ELSE LET queen == get_queen(w, t.player)
             player_turn_number == PlayerTurnNumber(w, t.player)
         IN  IF queen = NoId THEN "AttributeError"
             ELSE IF player_turn_number = 3 /\ w.location[queen] = "offboard"
             THEN IF PieceClass(piece_id) # "QueenBee"
                  THEN "Queen must be placed on turn 4"
                  ELSE "ok"
             ELSE IF player_turn_number > 3 /\ w.location[queen] = "offboard"
             THEN "failed to place Queen by turn 4"
             ELSE "ok"

\* PlacementRules, had turn 0 accepted the queen only
PlacementRules_QueenFirst(w, t, piece_id) ==
    IF w.turn = 0
    THEN IF t.target_coordinates # Origin
         THEN "First piece must be placed at the center (0,0,0)"
         ELSE IF PieceClass(piece_id) # "QueenBee"
         THEN "First piece must be the queen"
         ELSE "ok"
    ELSE IF AdjacentSet(t.target_coordinates) \cap GameOccupied(w) = {}
    THEN "Target coordinates must be adjacent to an occupied space"
    ELSE IF t.target_coordinates \in GameOccupied(w)
    THEN "Target coordinates are already occupied"
    ELSE IF w.turn > 1 /\ t.target_coordinates \notin PlayerAdjacent(w, t.player)
    THEN "Target coordinates must be adjacent to your own pieces"
    ELSE IF w.turn > 1 /\ t.target_coordinates \in PlayerAdjacent(w, Other(t.player))
    THEN "Target coordinates cannot be adjacent to opponent pieces"
    ELSE PlacementPieceCheck(w, t, piece_id)

\* PlacementRules, had it not asked whether the target is occupied
PlacementRules_OntoPieces(w, t, piece_id) ==
    IF w.turn = 0
    THEN IF t.target_coordinates # Origin
         THEN "First piece must be placed at the center (0,0,0)"
         ELSE "ok"
    ELSE IF AdjacentSet(t.target_coordinates) \cap GameOccupied(w) = {}
    THEN "Target coordinates must be adjacent to an occupied space"
    ELSE IF w.turn > 1 /\ t.target_coordinates \notin PlayerAdjacent(w, t.player)
    THEN "Target coordinates must be adjacent to your own pieces"
    ELSE IF w.turn > 1 /\ t.target_coordinates \in PlayerAdjacent(w, Other(t.player))
    THEN "Target coordinates cannot be adjacent to opponent pieces"
    ELSE PlacementPieceCheck(w, t, piece_id)

\* PlacementRules, had turn 0 accepted any target
PlacementRules_AnyFirstHex(w, t, piece_id) ==
    IF w.turn = 0 THEN "ok"
    ELSE IF AdjacentSet(t.target_coordinates) \cap GameOccupied(w) = {}
    THEN "Target coordinates must be adjacent to an occupied space"
    ELSE IF t.target_coordinates \in GameOccupied(w)
    THEN "Target coordinates are already occupied"
    ELSE IF w.turn > 1 /\ t.target_coordinates \notin PlayerAdjacent(w, t.player)
    THEN "Target coordinates must be adjacent to your own pieces"
    ELSE IF w.turn > 1 /\ t.target_coordinates \in PlayerAdjacent(w, Other(t.player))
    THEN "Target coordinates cannot be adjacent to opponent pieces"
    ELSE PlacementPieceCheck(w, t, piece_id)

\* PlacementRules, had it not looked at the opponent's pieces
PlacementRules_NoOpponentCheck(w, t, piece_id) ==
    IF w.turn = 0
    THEN IF t.target_coordinates # Origin
         THEN "First piece must be placed at the center (0,0,0)"
         ELSE "ok"
    ELSE IF AdjacentSet(t.target_coordinates) \cap GameOccupied(w) = {}
    THEN "Target coordinates must be adjacent to an occupied space"
    ELSE IF t.target_coordinates \in GameOccupied(w)
    THEN "Target coordinates are already occupied"
    ELSE IF w.turn > 1 /\ t.target_coordinates \notin PlayerAdjacent(w, t.player)
    THEN "Target coordinates must be adjacent to your own pieces"
    ELSE PlacementPieceCheck(w, t, piece_id)

\* validate_placement from "First piece must be placed at the center" on
\* (game.py 875-953), the piece id resolved
PlacementRules(w, t, piece_id) ==
    LET target == t.target_coordinates
        occupied == GameOccupied(w)
    IN  IF w.turn = 0
        THEN IF target # Origin
             THEN "First piece must be placed at the center (0,0,0)"
             ELSE "ok"
        ELSE IF AdjacentSet(target) \cap occupied = {}
        THEN "Target coordinates must be adjacent to an occupied space"
        ELSE IF target \in occupied
        THEN "Target coordinates are already occupied"
        ELSE IF w.turn > 1 /\ target \notin PlayerAdjacent(w, t.player)
        THEN "Target coordinates must be adjacent to your own pieces"
        ELSE IF w.turn > 1 /\ target \in PlayerAdjacent(w, Other(t.player))
        THEN "Target coordinates cannot be adjacent to opponent pieces"
        ELSE PlacementPieceCheck(w, t, piece_id)

\* validate_placement, had it looked for the piece among both players' pieces
validate_placement_AnyInventory(w, t) ==
    IF t.piece_id = NoId
    THEN IF t.piece_type = NoType
         THEN [err |-> "Placement requires either piece_id or piece_type",
               piece_id |-> NoId]
         ELSE LET available_piece ==
                      FirstIn(w.black_pieces \o w.white_pieces,
                              {p \in PieceIds :
                                  /\ PieceClass(p) = piece_type_map(t.piece_type)
                                  /\ w.location[p] = "offboard"})
              IN  IF available_piece = NoId
                  THEN [err |-> "No unplaced piece of that type available",
                        piece_id |-> NoId]
                  ELSE [err |-> PlacementRules(w, t, available_piece),
                        piece_id |-> available_piece]
    ELSE [err |-> PlacementRules(w, t, t.piece_id), piece_id |-> t.piece_id]

\* Turn.validate_placement: "ok" or the error raised, and the turn's piece id
\* (resolved from the type hint when the turn gave none)
validate_placement(w, t) ==
    IF t.piece_id = NoId
    THEN IF t.piece_type = NoType
         THEN [err |-> "Placement requires either piece_id or piece_type",
               piece_id |-> NoId]
         ELSE LET available_piece ==
                      FirstIn(PlayerPieces(w, t.player),
                              {p \in PieceIds :
                                  /\ PieceClass(p) = piece_type_map(t.piece_type)
                                  /\ w.location[p] = "offboard"})
              IN  IF available_piece = NoId
                  THEN [err |-> "No unplaced piece of that type available",
                        piece_id |-> NoId]
                  ELSE [err |-> PlacementRules(w, t, available_piece),
                        piece_id |-> available_piece]
    ELSE [err |-> PlacementRules(w, t, t.piece_id), piece_id |-> t.piece_id]

\* validate_movement, had it not asked whose piece it is
validate_movement_AnyTeam(w, t) ==
    IF t.piece_id = NoId THEN "Movement requires piece_id"
    ELSE IF t.piece_id \notin all_pieces(w) THEN "Piece not found"
    ELSE IF w.location[t.piece_id] # "board" THEN "Can only move pieces on the board"
    ELSE IF is_pinned(w, t.piece_id) THEN "is pinned and cannot move"
    ELSE IF /\ PlayerTurnNumber(w, t.player) >= 4
            /\ w.location[get_queen(w, t.player)] = "offboard"
    THEN "must place Queen by turn 4"
    ELSE IF ~can_move_to(w, t.piece_id, t.target_coordinates)
    THEN "cannot move to that position"
    ELSE "ok"

\* validate_movement, had it no queen placement rule
validate_movement_NoQueenRule(w, t) ==
    IF t.piece_id = NoId THEN "Movement requires piece_id"
    ELSE IF t.piece_id \notin all_pieces(w) THEN "Piece not found"
    ELSE IF PieceTeam(t.piece_id) # t.player THEN "Cannot move opponent piece"
    ELSE IF w.location[t.piece_id] # "board" THEN "Can only move pieces on the board"
    ELSE IF is_pinned(w, t.piece_id) THEN "is pinned and cannot move"
    ELSE IF ~can_move_to(w, t.piece_id, t.target_coordinates)
    THEN "cannot move to that position"
    ELSE "ok"

\* Turn.validate_movement: "ok" or the error raised
validate_movement(w, t) ==
    IF t.piece_id = NoId THEN "Movement requires piece_id"
    ELSE IF t.piece_id \notin all_pieces(w) THEN "Piece not found"
    ELSE IF PieceTeam(t.piece_id) # t.player THEN "Cannot move opponent piece"
    ELSE IF w.location[t.piece_id] # "board" THEN "Can only move pieces on the board"
    ELSE IF is_pinned(w, t.piece_id) THEN "is pinned and cannot move"
    ELSE LET queen == get_queen(w, t.player)
             player_turn == PlayerTurnNumber(w, t.player)
         IN  IF queen = NoId THEN "AttributeError"
             ELSE IF player_turn >= 4 /\ w.location[queen] = "offboard"
             THEN "must place Queen by turn 4"
             ELSE IF ~can_move_to(w, t.piece_id, t.target_coordinates)
             THEN "cannot move to that position"
             ELSE "ok"

\* Turn(player, piece_type='queenbee', action_type='place', target_coordinates)
QueenTurnAt(team, space) ==
    [player |-> team, piece_id |-> NoId, piece_type |-> "queenbee",
     action_type |-> "place", target_coordinates |-> space]

\* check_queen_placement_loss, had it looked from own turn number 3 on
check_queen_placement_loss_FromThree(w) ==
    LET queen == get_queen(w, w.current_team)
    IN  IF w.turn \div 2 < 3 THEN NoTeam
        ELSE IF queen = NoId \/ w.location[queen] # "offboard" THEN NoTeam
        ELSE IF \E space \in get_available_spaces(w) :
                    validate_placement(w, QueenTurnAt(w.current_team, space)).err = "ok"
        THEN NoTeam
        ELSE Other(w.current_team)

\* GameState.check_queen_placement_loss
check_queen_placement_loss(w) ==
    LET player_turn_number == w.turn \div 2
        queen == get_queen(w, w.current_team)
        QueenTurn(space) ==
            [player |-> w.current_team, piece_id |-> NoId, piece_type |-> "queenbee",
             action_type |-> "place", target_coordinates |-> space]
    IN  IF player_turn_number < 4 THEN NoTeam
        ELSE IF queen = NoId \/ w.location[queen] # "offboard" THEN NoTeam
        ELSE IF \E space \in get_available_spaces(w) :
                    validate_placement(w, QueenTurn(space)).err = "ok"
        THEN NoTeam
        ELSE Other(w.current_team)

(***************************************************************************)
(* The turns a caller hands to the engine.                                 *)
(***************************************************************************)
TypeHints == {"queenbee", "beetle"}

\* place turns: naming a piece (of either team, or of no team at all), or
\* giving a type hint, or neither
PlaceInputs(w) ==
    [player : Teams, piece_id : all_pieces(w) \cup {UnknownId, NoId},
     piece_type : {NoType}, action_type : {"place"}, target_coordinates : Cells]
    \cup
    [player : Teams, piece_id : {NoId}, piece_type : TypeHints,
     action_type : {"place"}, target_coordinates : Cells]

\* move turns: naming a piece or none
MoveInputs(w) ==
    [player : Teams, piece_id : all_pieces(w) \cup {UnknownId, NoId},
     piece_type : {NoType}, action_type : {"move"}, target_coordinates : Cells]

\* forfeit, or an action type the engine does not know
OtherInputs(action_types) ==
    [player : Teams, piece_id : {NoId}, piece_type : {NoType},
     action_type : action_types, target_coordinates : {NoHex}]

(***************************************************************************)
(* Game.apply_turn.                                                        *)
(***************************************************************************)
\* Advance, had it left current_team alone
Advance_KeepsTeam(w) ==
    [w EXCEPT !.history = @ + 1, !.win = check_win_condition(w), !.turn = @ + 1]

\* "Update game state for next turn" (game.py 987-992), the game being w.
Advance(w) ==
    [w EXCEPT !.history = @ + 1,
              !.win = check_win_condition(w),
              !.turn = @ + 1,
              !.current_team = Other(@)]

\* apply_turn(t), t.action_type = 'place'
apply_place(w, t) ==
    LET v == validate_placement(w, t)
    IN  IF v.err # "ok" THEN [w |-> w, err |-> v.err]
        ELSE IF v.piece_id \notin all_pieces(w)
        THEN [w |-> w, err |-> "AttributeError"]
        ELSE [w |-> Advance(add_piece(w, v.piece_id, t.target_coordinates)),
              err |-> "ok"]

\* apply_turn(t), t.action_type = 'move'
apply_move(w, t) ==
    LET err == validate_movement(w, t)
        moved == move_piece(w, t.piece_id, t.target_coordinates)
    IN  IF err # "ok" THEN [w |-> w, err |-> err]
        ELSE IF moved.raised
        THEN [w |-> moved.w, err |-> "list.remove(x): x not in list"]
        ELSE [w |-> Advance(moved.w), err |-> "ok"]

\* Game.apply_turn: the game it leaves, and "ok" or the error it raised
apply_turn(w, t) ==
    CASE t.action_type = "place" -> apply_place(w, t)
      [] t.action_type = "move" -> apply_move(w, t)
      [] t.action_type = "forfeit" -> [w |-> Advance(w), err |-> "ok"]
      [] OTHER -> [w |-> w, err |-> "Invalid action type"]

\* The class of the exception that carries message `err`: the validators and
\* list.remove raise ValueError, a read of None's attribute AttributeError.
ExceptionClass(err) ==
    CASE err = "ok" -> "ok"
      [] err = "AttributeError" -> "AttributeError"
      [] OTHER -> "ValueError"

\* The game is w; the last call of apply_turn ended as `ended`, and the caller
\* has asked check_queen_placement_loss since.
GameIs(w, ended) ==
    /\ turn = w.turn
    /\ current_team = w.current_team
    /\ white_pieces = w.white_pieces
    /\ black_pieces = w.black_pieces
    /\ hex = w.hex
    /\ location = w.location
    /\ z_level = w.z_level
    /\ pieces_below = w.pieces_below
    /\ pieces_above = w.pieces_above
    /\ stacks = w.stacks
    /\ bpieces = w.bpieces
    /\ history = w.history
    /\ win = w.win
    /\ result = ended
    /\ queen_loss = check_queen_placement_loss(w)
    /\ answer = NoAnswer

\* One call apply_turn(t), then the caller's check_queen_placement_loss.
Call(t) ==
    \E r \in {apply_turn(World, t)} :
        /\ turn' = r.w.turn
        /\ current_team' = r.w.current_team
        /\ hex' = r.w.hex
        /\ location' = r.w.location
        /\ z_level' = r.w.z_level
        /\ pieces_below' = r.w.pieces_below
        /\ pieces_above' = r.w.pieces_above
        /\ stacks' = r.w.stacks
        /\ bpieces' = r.w.bpieces
        /\ history' = r.w.history
        /\ win' = r.w.win
        /\ result' = ExceptionClass(r.err)
        /\ queen_loss' = check_queen_placement_loss(r.w)
        /\ UNCHANGED <<white_pieces, black_pieces, answer>>

ApplyPlaceBelow(limit) == turn < limit /\ \E t \in PlaceInputs(World) : Call(t)

ApplyMoveBelow(limit) == turn < limit /\ \E t \in MoveInputs(World) : Call(t)

ApplyForfeitBelow(limit) == turn < limit /\ \E t \in OtherInputs({"forfeit"}) : Call(t)

ApplyInvalidBelow(limit) == turn < limit /\ \E t \in OtherInputs({"resign"}) : Call(t)

ApplyPlace == ApplyPlaceBelow(MaxTurn)

ApplyMove == ApplyMoveBelow(MaxTurn)

ApplyForfeit == ApplyForfeitBelow(MaxTurn)

ApplyInvalid == ApplyInvalidBelow(MaxTurn)

\* Game(): a new game, both players given a beetle and a queen
NewGame ==
    [turn |-> 0, current_team |-> "white",
     white_pieces |-> <<2, 1>>, black_pieces |-> <<4, 3>>,
     hex |-> [p \in {1, 2, 3, 4} |-> NoHex],
     location |-> [p \in {1, 2, 3, 4} |-> "offboard"],
     z_level |-> [p \in {1, 2, 3, 4} |-> 0],
     pieces_below |-> [p \in {1, 2, 3, 4} |-> <<>>],
     pieces_above |-> [p \in {1, 2, 3, 4} |-> <<>>],
     stacks |-> [c \in {} |-> <<>>],
     bpieces |-> <<>>, history |-> 0, win |-> NoTeam]

Init == GameIs(NewGame, "none")

Next ==
    \/ ApplyPlace
    \/ ApplyMove
    \/ ApplyForfeit
    \/ ApplyInvalid

Spec == Init /\ [][Next]_vars

\* Games in which each player takes its own turns and never forfeits: every
\* call is a place or a move turn of the player whose turn it is.
OwnPlace ==
    /\ turn <= MaxTurn
    /\ \E t \in PlaceInputs(World) : t.player = current_team /\ Call(t)

OwnMove ==
    /\ turn <= MaxTurn
    /\ \E t \in MoveInputs(World) : t.player = current_team /\ Call(t)

OwnNext ==
    \/ OwnPlace
    \/ OwnMove

SpecOwnTurns == Init /\ [][OwnNext]_vars

(***************************************************************************)
(* Games that have reached a player's fourth turn with both queens still   *)
(* off the board: an opening of at most two placed beetles, then forfeits. *)
(***************************************************************************)
Forfeit(team) ==
    [player |-> team, piece_id |-> NoId, piece_type |-> NoType,
     action_type |-> "forfeit", target_coordinates |-> NoHex]

PlaceById(team, piece_id, target) ==
    [player |-> team, piece_id |-> piece_id, piece_type |-> NoType,
     action_type |-> "place", target_coordinates |-> target]

\* The game w after apply_turn has applied `n` forfeits.
RECURSIVE Forfeits(_, _)
Forfeits(w, n) ==
    IF n = 0 THEN w
    ELSE Forfeits(apply_turn(w, Forfeit(w.current_team)).w, n - 1)

\* The game after turn 0 placed the white beetle at the origin
OpeningOne == apply_turn(NewGame, PlaceById("white", 2, Origin)).w

\* ... and turn 1 the black beetle next to it
OpeningTwo == apply_turn(OpeningOne, PlaceById("black", 4, TargetHexes[2])).w

\* White's fourth turn is turn 6, black's is turn 7.
LateGames ==
    {Forfeits(NewGame, n) : n \in {6, 7}}
    \cup {Forfeits(OpeningOne, n) : n \in {5, 6}}
    \cup {Forfeits(OpeningTwo, n) : n \in {4, 5}}

LateInit == \E w \in LateGames : GameIs(w, "ok")

LateApplyPlace == ApplyPlaceBelow(MaxLateTurn)

LateApplyMove == ApplyMoveBelow(MaxLateTurn)

LateApplyForfeit == ApplyForfeitBelow(MaxLateTurn)

LateApplyInvalid == ApplyInvalidBelow(MaxLateTurn)

LateNext ==
    \/ LateApplyPlace
    \/ LateApplyMove
    \/ LateApplyForfeit
    \/ LateApplyInvalid

SpecLate == LateInit /\ [][LateNext]_vars

(***************************************************************************)
(* Boards set up with BoardState.add_piece, as the tests of the win        *)
(* condition set them up, and check_win_condition asked about them.        *)
(***************************************************************************)
WinHexes ==
    {TargetHexes[i] :
        i \in 1..(IF WinCells < Len(TargetHexes) THEN WinCells ELSE Len(TargetHexes))}

\* GameState() with five ants, a beetle and the queen for each player
FullGame ==
    [turn |-> 0, current_team |-> "white",
     white_pieces |-> <<5, 6, 7, 8, 9, 2, 1>>,
     black_pieces |-> <<10, 11, 12, 13, 14, 4, 3>>,
     hex |-> [p \in PieceIds |-> NoHex],
     location |-> [p \in PieceIds |-> "offboard"],
     z_level |-> [p \in PieceIds |-> 0],
     pieces_below |-> [p \in PieceIds |-> <<>>],
     pieces_above |-> [p \in PieceIds |-> <<>>],
     stacks |-> [c \in {} |-> <<>>],
     bpieces |-> <<>>, history |-> 0, win |-> NoTeam]

\* The pieces that surround a queen, in the order they are taken
Fillers == <<10, 11, 12, 13, 14, 4, 5, 6, 7, 8, 9, 2>>

\* add_piece for Fillers[k], Fillers[k + 1], ... on the hexes of `filled`,
\* taken in the order of TargetHexes from its i-th hex on.
RECURSIVE AddFillers(_, _, _, _)
AddFillers(w, filled, i, k) ==
    IF i > Len(TargetHexes) THEN w
    ELSE IF TargetHexes[i] \in filled
    THEN AddFillers(add_piece(w, Fillers[k], TargetHexes[i]), filled, i + 1, k + 1)
    ELSE AddFillers(w, filled, i + 1, k)

\* A queen put on hex `at`, or left off the board when `at` is NoHex
AddQueen(w, queen, at) == IF at = NoHex THEN w ELSE add_piece(w, queen, at)

QueenHexes == {NoHex, TargetHexes[1], TargetHexes[2]}

WinBoards ==
    {AddFillers(AddQueen(AddQueen(FullGame, 1, q[1]), 3, q[2]), filled, 1, 1) :
        q \in {x \in QueenHexes \X QueenHexes : x[1] = NoHex \/ x[1] # x[2]},
        filled \in SUBSET WinHexes}

\* The boards of WinBoards where no filler was put on a queen
WinInit ==
    \E w \in {b \in WinBoards : \A c \in DOMAIN b.stacks : Len(b.stacks[c]) = 1} :
        GameIs(w, "none")

\* winner = game_state.check_win_condition()
CheckWin ==
    /\ result = "none"
    /\ win' = check_win_condition(World)
    /\ result' = "checked"
    /\ UNCHANGED <<turn, current_team, white_pieces, black_pieces, hex, location,
                   z_level, pieces_below, pieces_above, stacks, bpieces, history,
                   queen_loss, answer>>

WinNext == CheckWin

SpecWin == WinInit /\ [][WinNext]_vars

(***************************************************************************)
(* Boards set up with BoardState.add_piece around one piece at the origin, *)
(* and the board's functions asked about them.                             *)
(***************************************************************************)
MoveHexes ==
    {TargetHexes[i] :
        i \in 1..(IF MoveCells < Len(TargetHexes) THEN MoveCells ELSE Len(TargetHexes))}

\* GameState() with the ants, a grasshopper, a spider, a beetle and the queen
\* of each player
MoveGame ==
    [FullGame EXCEPT !.white_pieces = <<5, 6, 7, 8, 9, 15, 17, 2, 1>>,
                     !.black_pieces = <<10, 11, 12, 13, 14, 16, 18, 4, 3>>]

\* The piece put at the origin: none, or a queen, a beetle, an ant, a
\* grasshopper or a spider
Movers == {NoId, 1, 2, 5, 15, 17}

\* The pieces put around it, in the order they are taken
MoveFillers == <<10, 11, 12, 13, 14, 4, 16, 18, 3, 6, 7, 8, 9>>

\* add_piece for ids[k], ids[k + 1], ... on the hexes of `filled`, taken in
\* the order of TargetHexes from its i-th hex on.
RECURSIVE AddPieces(_, _, _, _, _)
AddPieces(w, ids, filled, i, k) ==
    IF i > Len(TargetHexes) THEN w
    ELSE IF TargetHexes[i] \in filled
    THEN AddPieces(add_piece(w, ids[k], TargetHexes[i]), ids, filled, i + 1, k + 1)
    ELSE AddPieces(w, ids, filled, i + 1, k)

\* The white beetle put on top of the piece at the origin, when asked for
Cover(w, mover, covered) ==
    IF covered /\ mover \notin {NoId, 2} THEN add_piece(w, 2, Origin) ELSE w

MoveBoards ==
    {Cover(AddPieces(AddQueen(MoveGame, mover, IF mover = NoId THEN NoHex ELSE Origin),
                     MoveFillers, filled, 1, 1), mover, covered) :
        mover \in Movers, filled \in SUBSET (MoveHexes \ {Origin}),
        covered \in BOOLEAN}

MoveInit == \E w \in MoveBoards : GameIs(w, "none")

\* One function is asked about each board; the query leaves the game as it is.
Asked(fn, arg, value) ==
    /\ answer = NoAnswer
    /\ answer' = [fn |-> fn, arg |-> arg, value |-> value]
    /\ UNCHANGED <<turn, current_team, white_pieces, black_pieces, hex, location,
                   z_level, pieces_below, pieces_above, stacks, bpieces, history,
                   win, result, queen_loss>>

\* piece.get_valid_moves(game_state), for a piece of the game
AskMoves ==
    \E p \in all_pieces(World) :
        Asked("get_valid_moves", <<p>>, get_valid_moves(World, p))

\* MovementHelper.can_slide_to_adjacent(from_hex, to_hex, occupied), occupied
\* the hexes of the board
AskSlide ==
    \E from_hex \in {TargetHexes[1], TargetHexes[2]}, to_hex \in MoveHexes :
        Asked("can_slide_to_adjacent", <<from_hex, to_hex>>,
              can_slide_to_adjacent(from_hex, to_hex, GameOccupied(World)))

\* game_state.get_available_spaces()
AskAvailable == Asked("get_available_spaces", <<>>, get_available_spaces(World))

\* MovementHelper.hive_stays_connected(piece_id, game_state), for a piece of
\* the board
AskHive ==
    \E p \in Range(bpieces) :
        Asked("hive_stays_connected", <<p>>, hive_stays_connected(World, p))

\* game_state.get_valid_slide_positions(current, occupied), occupied the hexes
\* of the board but `current`
AskSlidePositions ==
    \E current \in {TargetHexes[1], TargetHexes[2]} :
        Asked("get_valid_slide_positions", <<current, GameOccupied(World) \ {current}>>,
              get_valid_slide_positions(current, GameOccupied(World) \ {current}))

MoveNext ==
    \/ AskMoves
    \/ AskSlide
    \/ AskAvailable
    \/ AskHive
    \/ AskSlidePositions

SpecMoves == MoveInit /\ [][MoveNext]_vars

(***************************************************************************)
(* A game played with apply_turn until the white queen has five of its six *)
(* neighbours occupied, and the turns applied from there on.               *)
(***************************************************************************)
EndMove(team, piece_id, target) ==
    [player |-> team, piece_id |-> piece_id, piece_type |-> NoType,
     action_type |-> "move", target_coordinates |-> target]

\* White places its queen and ants around it and walks one ant into the gap
\* next to the black queen; black places its queen and then forfeits.
EndScript ==
    << PlaceById("white", 1, Origin),          PlaceById("black", 3, <<1, -1, 0>>),
       PlaceById("white", 5, <<0, 1, -1>>),    Forfeit("black"),
       PlaceById("white", 6, <<-1, 1, 0>>),    Forfeit("black"),
       PlaceById("white", 7, <<-1, 0, 1>>),    Forfeit("black"),
       PlaceById("white", 8, <<-2, 1, 1>>),    Forfeit("black"),
       EndMove("white", 8, <<0, -1, 1>>),      Forfeit("black"),
       PlaceById("white", 9, <<0, 2, -2>>),    Forfeit("black") >>

\* The game after apply_turn has applied the first n turns of EndScript
RECURSIVE Played(_)
Played(n) == IF n = 0 THEN FullGame ELSE apply_turn(Played(n - 1), EndScript[n]).w

\* The hexes the turns of the end game aim at
EndHexes ==
    {TargetHexes[i] :
        i \in 1..(IF EndCells < Len(TargetHexes) THEN EndCells ELSE Len(TargetHexes))}

\* The piece types the place turns of the end game give as a hint
EndTypeHints == {"ant", "beetle", "queenbee"}

EndPlaceInputs(w) ==
    [player : Teams, piece_id : all_pieces(w) \cup {NoId},
     piece_type : {NoType}, action_type : {"place"}, target_coordinates : EndHexes]
    \cup
    [player : Teams, piece_id : {NoId}, piece_type : EndTypeHints,
     action_type : {"place"}, target_coordinates : EndHexes]

EndMoveInputs(w) ==
    [player : Teams, piece_id : all_pieces(w) \cup {NoId},
     piece_type : {NoType}, action_type : {"move"}, target_coordinates : EndHexes]

EndInit == GameIs(Played(Len(EndScript)), "ok")

EndApplyPlace == turn < EndTurn /\ \E t \in EndPlaceInputs(World) : Call(t)

EndApplyMove == turn < EndTurn /\ \E t \in EndMoveInputs(World) : Call(t)

EndApplyForfeit == ApplyForfeitBelow(EndTurn)

EndApplyInvalid == ApplyInvalidBelow(EndTurn)

EndNext ==
    \/ EndApplyPlace
    \/ EndApplyMove
    \/ EndApplyForfeit
    \/ EndApplyInvalid

SpecEnd == EndInit /\ [][EndNext]_vars

(***************************************************************************)
(* The validators and the detectors called on games that apply_turn has    *)
(* played: what each call answers and the game it leaves behind.           *)
(***************************************************************************)
\* validate_placement, had it put the piece of an accepted turn on the board
game_after_validate_placement_Places(w, t) ==
    IF validate_placement(w, t).err = "ok"
    THEN add_piece(w, validate_placement(w, t).piece_id, t.target_coordinates)
    ELSE w

\* The game Turn.validate_placement leaves: its one assignment is to
\* turn.piece_id (game.py 873), the game is read only.
game_after_validate_placement(w, t) == w

\* The game Turn.validate_movement leaves: it assigns nothing (game.py 811-839,
\* and the get_valid_moves it delegates to build local lists only).
game_after_validate_movement(w, t) == w

\* The game GameState.check_win_condition leaves (game.py 670-684).
game_after_check_win_condition(w) == w

\* The game left by validate_placement called for a queen placement on each of
\* `spaces` in turn
RECURSIVE game_after_queen_probes(_, _)
game_after_queen_probes(w, spaces) ==
    IF spaces = {} THEN w
    ELSE LET space == CHOOSE c \in spaces : TRUE
         IN  game_after_queen_probes(
                 game_after_validate_placement(w, QueenTurnAt(w.current_team, space)),
                 spaces \ {space})

\* The game GameState.check_queen_placement_loss leaves (game.py 693-723): the
\* validate_placement calls of its loop are its only calls that might write.
game_after_check_queen_placement_loss(w) ==
    IF w.turn \div 2 < 4 THEN w
    ELSE IF get_queen(w, w.current_team) = NoId THEN w
    ELSE IF w.location[get_queen(w, w.current_team)] # "offboard" THEN w
    ELSE game_after_queen_probes(w, get_available_spaces(w))

\* The games the functions are called on: the game of EndScript after each of
\* its turns, the new game after forfeits only, and the game of two beetles
\* (ValidatorOpening) after forfeits
ValidatorOpening ==
    apply_turn(apply_turn(FullGame, PlaceById("white", 2, Origin)).w,
               PlaceById("black", 4, TargetHexes[2])).w

ValidatorGames ==
    {Played(n) : n \in 0..Len(EndScript)}
    \cup {Forfeits(FullGame, n) : n \in 6..(MaxLateTurn - 1)}
    \cup {Forfeits(ValidatorOpening, n) : n \in 4..(MaxLateTurn - 3)}

ValidatorInit == \E w \in ValidatorGames : GameIs(w, "ok")

\* One function is called on each game: `value` is what it answers, `after`
\* the game it leaves.
Called(fn, arg, value, after) ==
    /\ answer = NoAnswer
    /\ answer' = [fn |-> fn, arg |-> arg, value |-> value]
    /\ turn' = after.turn
    /\ current_team' = after.current_team
    /\ hex' = after.hex
    /\ location' = after.location
    /\ z_level' = after.z_level
    /\ pieces_below' = after.pieces_below
    /\ pieces_above' = after.pieces_above
    /\ stacks' = after.stacks
    /\ bpieces' = after.bpieces
    /\ UNCHANGED <<white_pieces, black_pieces, history, win, result, queen_loss>>

\* Turn.validate_placement(turn, game_state)
CallValidatePlacement ==
    \E t \in EndPlaceInputs(World) :
        Called("validate_placement", <<t>>, validate_placement(World, t),
               game_after_validate_placement(World, t))

\* Turn.validate_movement(turn, game_state)
CallValidateMovement ==
    \E t \in EndMoveInputs(World) :
        Called("validate_movement", <<t>>, validate_movement(World, t),
               game_after_validate_movement(World, t))

\* game_state.check_win_condition()
CallCheckWin ==
    Called("check_win_condition", <<>>, check_win_condition(World),
           game_after_check_win_condition(World))

\* game_state.check_queen_placement_loss()
CallCheckQueenLoss ==
    Called("check_queen_placement_loss", <<>>, check_queen_placement_loss(World),
           game_after_check_queen_placement_loss(World))

ValidatorNext ==
    \/ CallValidatePlacement
    \/ CallValidateMovement
    \/ CallCheckWin
    \/ CallCheckQueenLoss

SpecValidators == ValidatorInit /\ [][ValidatorNext]_vars

(***************************************************************************)
(* Hex coordinates on their own: the constructor and the two adjacency     *)
(* functions, asked about coordinates that no game need hold.              *)
(***************************************************************************)
\* HexCoordinate(q=q, r=r, s=s): the validator of `s` raises ValueError when
\* q + r + s is not 0.
HexCoordinate(q, r, s) ==
    IF q + r + s # 0
    THEN [err |-> "ValueError", value |-> NoHex]
    ELSE [err |-> "ok", value |-> <<q, r, s>>]

\* The coordinates the constructor accepts within HexRange
HexCoordinates ==
    {HexCoordinate(q, r, s).value :
        <<q, r, s>> \in {t \in (-HexRange..HexRange) \X (-HexRange..HexRange)
                                  \X (-HexRange..HexRange) :
                             HexCoordinate(t[1], t[2], t[3]).err = "ok"}}

HexInit == GameIs(FullGame, "none")

\* HexCoordinate(q=q, r=r, s=s)
AskHexCoordinate ==
    \E q \in -HexRange..HexRange, r \in -HexRange..HexRange, s \in -HexRange..HexRange :
        Asked("HexCoordinate", <<q, r, s>>, HexCoordinate(q, r, s))

\* c.get_adjacent_hexes(): each hex of the list is constructed by HexCoordinate
AskAdjacentHexes ==
    \E c \in HexCoordinates :
        Asked("get_adjacent_hexes", <<c>>,
              [i \in 1..6 |->
                  HexCoordinate(get_adjacent_hexes(c)[i][1], get_adjacent_hexes(c)[i][2],
                                get_adjacent_hexes(c)[i][3])])

\* MovementHelper.are_hexes_adjacent(a, b)
AskAreAdjacent ==
    \E a \in HexCoordinates, b \in HexCoordinates :
        Asked("are_hexes_adjacent", <<a, b>>, are_hexes_adjacent(a, b))

HexNext ==
    \/ AskHexCoordinate
    \/ AskAdjacentHexes
    \/ AskAreAdjacent

SpecHex == HexInit /\ [][HexNext]_vars

(***************************************************************************)
(* What the properties below speak of.                                     *)
(***************************************************************************)
\* The hexes that hold a piece
OccupiedHexes == {hex[p] : p \in {x \in DOMAIN location : location[x] = "board"}}

\* The hexes of `hexes` reached from `seen` by steps between adjacent hexes
RECURSIVE Reach(_, _)
Reach(seen, hexes) ==
    LET more == {c \in hexes : \E d \in seen : are_hexes_adjacent(c, d)}
    IN  IF more \subseteq seen THEN seen ELSE Reach(seen \cup more, hexes)

\* The queen of a team
QueenOf(team) == IF team = "white" THEN 1 ELSE 3

\* The on-board pieces of a team that are next to hex c
NextTo(c, team) ==
    {p \in DOMAIN location :
        /\ PieceTeam(p) = team
        /\ location[p] = "board"
        /\ are_hexes_adjacent(hex[p], c)}

\* The queen is on the board and its six adjacent hexes are all occupied
Surrounded(queen) ==
    /\ location[queen] = "board"
    /\ \A i \in 1..6 : HexAdd(hex[queen], directions[i]) \in OccupiedHexes

\* The place turn names, by id or by type hint, a piece that is off the board
NamesAvailablePiece(t) ==
    IF t.piece_id # NoId
    THEN t.piece_id \in DOMAIN location /\ location[t.piece_id] = "offboard"
    ELSE /\ t.piece_type # NoType
         /\ \E p \in Range(PlayerPieces(World, t.player)) :
                /\ PieceClass(p) = piece_type_map(t.piece_type)
                /\ location[p] = "offboard"

\* The pieces apply_turn(t) puts on the board
PlacedBy(t) ==
    {p \in DOMAIN location :
        location[p] = "offboard" /\ apply_turn(World, t).w.location[p] = "board"}

\* apply_turn(t) raises and leaves the game as it was
Rejected(t) == apply_turn(World, t).err # "ok" /\ apply_turn(World, t).w = World

\* a queen placement by `team` at hex c
QueenPlacement(team, c) ==
    [player |-> team, piece_id |-> NoId, piece_type |-> "queenbee",
     action_type |-> "place", target_coordinates |-> c]

(***************************************************************************)
(* Properties.                                                             *)
(***************************************************************************)
\* C1: in every state reached by applied place and move turns, the pieces on
\* the board form one connected component under hex adjacency.
C1_HiveIsConnected ==
    \A c \in OccupiedHexes : Reach({c}, OccupiedHexes) = OccupiedHexes

\* C2: a call of apply_turn that returns normally adds one to turn and flips
\* current_team; so current_team is white exactly when turn is even, and turn
\* never decreases.
C2_TurnAdvances ==
    /\ [](current_team = (IF turn % 2 = 0 THEN "white" ELSE "black"))
    /\ [][/\ turn' >= turn
          /\ result' = "ok" =>
                 turn' = turn + 1 /\ current_team' = Other(current_team)]_vars

\* Three calls have returned normally, the last of them a move or a forfeit.
C2_Witness ==
    /\ turn = 3
    /\ history = 3
    /\ current_team = "black"
    /\ result = "ok"
    /\ Len(bpieces) = 2

\* C3: when apply_turn raises, the game is what it was before the call: turn,
\* current_team, history, the stacks, and every piece's coordinate, location,
\* z_level and above/below lists.
C3_RaiseLeavesGame ==
    [][result' # "ok" =>
           UNCHANGED <<turn, current_team, history, stacks, hex, location, z_level,
                       pieces_above, pieces_below>>]_vars

\* C4: at turn 0 a placement of an available piece is accepted iff its target
\* is the origin; any other target is rejected with the "first piece must be
\* placed at the center" error.
C4_FirstPlacementAtOrigin ==
    turn = 0 =>
        \A t \in PlaceInputs(World) :
            NamesAvailablePiece(t) =>
                IF t.target_coordinates = Origin
                THEN /\ apply_turn(World, t).err = "ok"
                     /\ \E p \in PlacedBy(t) : apply_turn(World, t).w.hex[p] = Origin
                ELSE /\ apply_turn(World, t).err
                            = "First piece must be placed at the center (0,0,0)"
                     /\ apply_turn(World, t).w = World

\* The first placement has been accepted: one piece, at the origin.
C4_Witness ==
    /\ turn = 1
    /\ result = "ok"
    /\ Len(bpieces) = 1
    /\ hex[bpieces[1]] = Origin
    /\ location[bpieces[1]] = "board"

\* C5: a placement accepted at turn >= 1 targets an unoccupied hex adjacent to
\* an occupied hex; one accepted at turn >= 2 targets a hex adjacent to an
\* on-board piece of the turn's player and to no on-board piece of the opponent.
C5_PlacementAdjacency ==
    \A t \in PlaceInputs(World) :
        (turn >= 1 /\ apply_turn(World, t).err = "ok") =>
            /\ t.target_coordinates \notin OccupiedHexes
            /\ \E c \in OccupiedHexes : are_hexes_adjacent(c, t.target_coordinates)
            /\ turn >= 2 =>
                   /\ NextTo(t.target_coordinates, t.player) # {}
                   /\ NextTo(t.target_coordinates, Other(t.player)) = {}

\* A third piece has been placed, at turn 2 or later, away from the other team.
C5_Witness ==
    /\ result = "ok"
    /\ Len(bpieces) = 3
    /\ Cardinality(OccupiedHexes) = 3
    /\ history = turn
    /\ \E p \in DOMAIN location :
           /\ location[p] = "board"
           /\ NextTo(hex[p], PieceTeam(p)) # {}
           /\ NextTo(hex[p], Other(PieceTeam(p))) = {}

\* C6: on a player's 4th own turn (own turn number 3) with that player's queen
\* off the board, a placement by that player is accepted only if the piece
\* placed is that player's queen.
C6_FourthTurnPlacesOwnQueen ==
    \A t \in PlaceInputs(World) :
        (/\ PlayerTurnNumber(World, t.player) = 3
         /\ location[QueenOf(t.player)] = "offboard"
         /\ apply_turn(World, t).err = "ok") =>
            PlacedBy(t) = {QueenOf(t.player)}

\* C7: once a player's own turn number is >= 4 and that player's queen is off
\* the board, every move and every placement by that player is rejected, and
\* a forfeit is accepted.
C7_OnlyForfeitPastDeadline ==
    \A team \in Teams :
        (PlayerTurnNumber(World, team) >= 4 /\ location[QueenOf(team)] = "offboard") =>
            /\ \A t \in PlaceInputs(World) \cup MoveInputs(World) :
                   t.player = team => Rejected(t)
            /\ \A t \in OtherInputs({"forfeit"}) :
                   t.player = team => apply_turn(World, t).err = "ok"

\* White, its beetle on the board and its queen not, was turned down at its
\* fifth turn.
C7_Witness ==
    /\ turn = 8
    /\ location[1] = "offboard"
    /\ location[2] = "board"
    /\ result = "ValueError"

\* C8: a move is rejected, and nothing moved, when it names no piece, a piece
\* of the other team than the turn's player, a piece off the board or a pinned
\* piece; so no piece changes coordinate while a piece rests on it.
C8_IllegalMovesRejected ==
    /\ [](\A t \in MoveInputs(World) :
              (\/ t.piece_id = NoId
               \/ /\ t.piece_id \in DOMAIN location
                  /\ \/ PieceTeam(t.piece_id) # t.player
                     \/ location[t.piece_id] = "offboard"
                     \/ pieces_above[t.piece_id] # <<>>) => Rejected(t))
    /\ [][\A p \in DOMAIN hex : pieces_above[p] # <<>> => hex'[p] = hex[p]]_vars

\* A piece rests on another, and the last call was rejected.
C8_Witness ==
    /\ \E p \in DOMAIN hex : pieces_above[p] # <<>> /\ location[p] = "board"
    /\ result = "ValueError"
    /\ turn >= 3

\* C9 (as stated): check_win_condition returns 'black' when the white queen is
\* surrounded, 'white' when the black queen is surrounded, and no winner when
\* neither is.
C9_AsStated ==
    result = "checked" =>
        /\ Surrounded(1) => win = "black"
        /\ Surrounded(3) => win = "white"
        /\ (~Surrounded(1) /\ ~Surrounded(3)) => win = NoTeam

\* C9: check_win_condition returns 'black' when the white queen is on the
\* board with all six adjacent hexes occupied, 'white' when the black queen is
\* and the white queen is not, and no winner when neither queen is.
C9_WinCondition ==
    result = "checked" =>
        /\ Surrounded(1) => win = "black"
        /\ (Surrounded(3) /\ ~Surrounded(1)) => win = "white"
        /\ (~Surrounded(1) /\ ~Surrounded(3)) => win = NoTeam

\* The black queen alone is surrounded, and white was returned.
C9_Witness ==
    /\ result = "checked"
    /\ Surrounded(3)
    /\ ~Surrounded(1)
    /\ location[1] = "board"
    /\ win = "white"

\* C10: when the player to act is at own turn number 3 with the queen off the
\* board and no hex validates a queen placement, check_queen_placement_loss
\* returns the opponent.
C10_QueenLossAtFourthTurn ==
    (/\ PlayerTurnNumber(World, current_team) = 3
     /\ location[QueenOf(current_team)] = "offboard"
     /\ \A c \in get_available_spaces(World) \cup Cells :
            validate_placement(World, QueenPlacement(current_team, c)).err # "ok") =>
        queen_loss = Other(current_team)

\* The pieces on the board other than p
Remaining(p) == {x \in DOMAIN location : location[x] = "board" /\ x # p}

\* The pieces of `pieces` a traversal from `seen` visits, stepping from a piece
\* to the pieces on the hexes adjacent to its hex
RECURSIVE PieceReach(_, _)
PieceReach(seen, pieces) ==
    LET more == {x \in pieces : \E y \in seen : are_hexes_adjacent(hex[x], hex[y])}
    IN  IF more \subseteq seen THEN seen ELSE PieceReach(seen \cup more, pieces)

\* A traversal from one of the pieces other than p visits them all
VisitsAll(p) ==
    \E start \in Remaining(p) : PieceReach({start}, Remaining(p)) = Remaining(p)

\* The hexes of the pieces other than p are one connected component
HexesConnected(p) ==
    LET hexes == {hex[x] : x \in Remaining(p)}
    IN  \A c \in hexes : Reach({c}, hexes) = hexes

\* C11: hive_stays_connected(p) is true iff at most one on-board piece other
\* than p remains or a traversal over hex adjacency from one of them visits all
\* of them (pieces that share a hex taken as visited together, or not).
C11_HiveStaysConnected ==
    \A p \in {x \in DOMAIN location : location[x] = "board"} :
        \/ hive_stays_connected(World, p)
               = (Cardinality(Remaining(p)) <= 1 \/ VisitsAll(p))
        \/ hive_stays_connected(World, p)
               = (Cardinality(Remaining(p)) <= 1 \/ HexesConnected(p))

\* The directions that lead from hex a to hex b (one when they are adjacent)
DirectionsTo(a, b) == {i \in 1..6 : b = HexAdd(a, directions[i])}

\* The two hexes adjacent to both a and its neighbour in direction i
LeftOf(a, i) == HexAdd(a, directions[((i + 4) % 6) + 1])

RightOf(a, i) == HexAdd(a, directions[(i % 6) + 1])

\* C12: for adjacent hexes can_slide_to_adjacent returns false exactly when
\* both hexes adjacent to the two of them are occupied; for hexes that are not
\* adjacent (from = to included) it raises.
C12_CanSlide ==
    answer.fn = "can_slide_to_adjacent" =>
        LET from_hex == answer.arg[1]
            to_hex == answer.arg[2]
        IN  IF DirectionsTo(from_hex, to_hex) = {}
            THEN answer.value.raised
            ELSE \A i \in DirectionsTo(from_hex, to_hex) :
                     /\ ~answer.value.raised
                     /\ answer.value.value
                            = ~(/\ LeftOf(from_hex, i) \in OccupiedHexes
                                /\ RightOf(from_hex, i) \in OccupiedHexes)

\* A slide from the origin was refused: the gate is closed.
C12_Witness ==
    /\ answer.fn = "can_slide_to_adjacent"
    /\ answer.arg[1] = Origin
    /\ ~answer.value.raised
    /\ ~answer.value.value

\* The piece the board was asked about
Asker == answer.arg[1]

\* The piece is on the board, carries no piece and passes the connectivity test
Movable(p) ==
    /\ location[p] = "board"
    /\ pieces_above[p] = <<>>
    /\ hive_stays_connected(World, p)

\* The hex k steps from c in direction i
Along(c, i, k) == <<c[1] + k * directions[i][1], c[2] + k * directions[i][2],
                    c[3] + k * directions[i][3]>>

\* The hexes of the other on-board pieces
OthersHexes(p) == {hex[x] : x \in {y \in DOMAIN location : location[y] = "board"} \ {p}}

\* The first unoccupied hex along direction i, past an occupied neighbour
Landings(p, i) ==
    {Along(hex[p], i, k) : k \in {n \in 2..(Cardinality(OthersHexes(p)) + 1) :
        /\ \A j \in 1..(n - 1) : Along(hex[p], i, j) \in OthersHexes(p)
        /\ Along(hex[p], i, n) \notin OthersHexes(p)}}

\* C13: a movable Grasshopper's destinations are, for each direction whose
\* immediate neighbour is occupied, the first unoccupied hex along it; a
\* direction whose neighbour is unoccupied contributes nothing; nothing else.
C13_GrasshopperJumps ==
    (/\ answer.fn = "get_valid_moves"
     /\ PieceClass(Asker) = "Grasshopper"
     /\ Movable(Asker)) =>
        /\ answer.value = UNION {Landings(Asker, i) : i \in 1..6}
        /\ \A i \in 1..6 :
               IF Along(hex[Asker], i, 1) \in OthersHexes(Asker)
               THEN Cardinality(Landings(Asker, i)) = 1
               ELSE /\ Landings(Asker, i) = {}
                    /\ \A k \in 1..(Cardinality(OthersHexes(Asker)) + 1) :
                           Along(hex[Asker], i, k) \notin answer.value

\* A movable Grasshopper at the origin jumped two pieces in a row.
C13_Witness ==
    /\ answer.fn = "get_valid_moves"
    /\ PieceClass(Asker) = "Grasshopper"
    /\ Movable(Asker)
    /\ hex[Asker] = Origin
    /\ Along(Origin, 1, 3) \in answer.value

\* The hexes one step from a: unoccupied, through an open gate, next to an
\* occupied hex (occ holds the hexes of the other pieces)
Steps(a, occ) ==
    {Along(a, i, 1) : i \in {j \in 1..6 :
        /\ Along(a, j, 1) \notin occ
        /\ ~(LeftOf(a, j) \in occ /\ RightOf(a, j) \in occ)
        /\ \E k \in 1..6 : Along(Along(a, j, 1), k, 1) \in occ}}

\* The paths of three steps from piece p's hex that never revisit a hex
ThreeStepPaths(p) ==
    LET occ == OthersHexes(p)
    IN  {path \in UNION {UNION {{<<h1, h2, h3>> : h3 \in Steps(h2, occ)} :
                                   h2 \in Steps(h1, occ)} :
                            h1 \in Steps(hex[p], occ)} :
            Cardinality({hex[p], path[1], path[2], path[3]}) = 4}

\* The hexes one or two steps from piece p's hex
NearSteps(p) ==
    LET occ == OthersHexes(p)
        one == Steps(hex[p], occ)
    IN  one \cup (UNION {Steps(h, occ) : h \in one} \ {hex[p]})

\* C14, as stated: a movable Spider's destinations are exactly the endpoints
\* of the three-step paths, and a hex one or two steps away is never one.
C14_AsStated ==
    (/\ answer.fn = "get_valid_moves"
     /\ PieceClass(Asker) = "Spider"
     /\ Movable(Asker)) =>
        /\ answer.value = {path[3] : path \in ThreeStepPaths(Asker)}
        /\ answer.value \cap NearSteps(Asker) = {}

\* C14, amended: a movable Spider's destinations are exactly the endpoints of
\* the three-step paths that never revisit a hex; the spider's own hex is
\* never one, while a hex one or two steps away is one when another path
\* reaches it in three.
C14_SpiderEndpoints ==
    (/\ answer.fn = "get_valid_moves"
     /\ PieceClass(Asker) = "Spider"
     /\ Movable(Asker)) =>
        /\ answer.value = {path[3] : path \in ThreeStepPaths(Asker)}
        /\ hex[Asker] \notin answer.value

\* A movable Spider may go to a hex that is also two steps away.
C14_Witness ==
    /\ answer.fn = "get_valid_moves"
    /\ PieceClass(Asker) = "Spider"
    /\ Movable(Asker)
    /\ answer.value \cap NearSteps(Asker) # {}

\* The hexes reached from `seen` by any number of steps
RECURSIVE StepClosure(_, _)
StepClosure(seen, occ) ==
    LET more == UNION {Steps(h, occ) : h \in seen}
    IN  IF more \subseteq seen THEN seen ELSE StepClosure(seen \cup more, occ)

\* C15: a movable Ant's destinations are exactly the hexes reached from its
\* start by repeated valid slides (the ant removed from the occupied hexes),
\* minus the start; none is occupied and each is next to another piece.
C15_AntClosure ==
    (/\ answer.fn = "get_valid_moves"
     /\ PieceClass(Asker) = "Ant"
     /\ Movable(Asker)) =>
        /\ answer.value = StepClosure({hex[Asker]}, OthersHexes(Asker)) \ {hex[Asker]}
        /\ answer.value \cap OccupiedHexes = {}
        /\ \A c \in answer.value :
               \E x \in DOMAIN location :
                   /\ x # Asker
                   /\ location[x] = "board"
                   /\ \E i \in 1..6 : Along(c, i, 1) = hex[x]

\* A movable Ant reaches a hex that is not next to its start.
C15_Witness ==
    /\ answer.fn = "get_valid_moves"
    /\ PieceClass(Asker) = "Ant"
    /\ Movable(Asker)
    /\ \E c \in answer.value : \A i \in 1..6 : Along(hex[Asker], i, 1) # c

\* C16: get_available_spaces returns exactly the origin when no piece is on
\* the board, and otherwise exactly the unoccupied hexes next to an occupied
\* one (the six neighbours of the origin after one piece is placed there).
C16_AvailableSpaces ==
    answer.fn = "get_available_spaces" =>
        IF OccupiedHexes = {}
        THEN answer.value = {Origin}
        ELSE /\ \A c \in answer.value :
                    /\ c \notin OccupiedHexes
                    /\ \E i \in 1..6 : Along(c, i, 1) \in OccupiedHexes
             /\ \A h \in OccupiedHexes : \A i \in 1..6 :
                    Along(h, i, 1) \notin OccupiedHexes => Along(h, i, 1) \in answer.value
             /\ OccupiedHexes = {Origin} =>
                    /\ Cardinality(answer.value) = 6
                    /\ \A i \in 1..6 : directions[i] \in answer.value

\* With one piece, at the origin, the six hexes around it are available.
C16_Witness ==
    /\ answer.fn = "get_available_spaces"
    /\ OccupiedHexes = {Origin}
    /\ Cardinality(answer.value) = 6

\* The ids with location 'board'
OnBoard == {x \in DOMAIN location : location[x] = "board"}

\* The places <<c, i>> of the stack map that hold piece p
PlacesOf(p) ==
    {place \in UNION {{<<c, i>> : i \in 1..Len(stacks[c])} : c \in DOMAIN stacks} :
        stacks[place[1]][place[2]] = p}

\* C17: a coordinate is a key of the stack map iff an on-board piece has it
\* (no stack is empty), and a piece has location 'board' iff its id appears in
\* exactly one stack, exactly once, under the piece's own coordinate.
C17_StacksHoldBoardPieces ==
    /\ \A c \in DOMAIN stacks : stacks[c] # <<>>
    /\ DOMAIN stacks = {hex[p] : p \in OnBoard}
    /\ \A p \in DOMAIN location :
           location[p] = "board" <=>
               /\ Cardinality(PlacesOf(p)) = 1
               /\ \A place \in PlacesOf(p) : place[1] = hex[p]

\* Each piece names the one piece directly above it and the one directly below
DirectReferences ==
    \A c \in DOMAIN stacks : \A i \in 1..Len(stacks[c]) :
        /\ pieces_below[stacks[c][i]]
               = IF i = 1 THEN <<>> ELSE <<stacks[c][i - 1]>>
        /\ pieces_above[stacks[c][i]]
               = IF i = Len(stacks[c]) THEN <<>> ELSE <<stacks[c][i + 1]>>

\* Each piece names all the pieces below it and all the pieces above it, in
\* stack order
FullReferences ==
    \A c \in DOMAIN stacks : \A i \in 1..Len(stacks[c]) :
        /\ pieces_below[stacks[c][i]] = SubSeq(stacks[c], 1, i - 1)
        /\ pieces_above[stacks[c][i]] = SubSeq(stacks[c], i + 1, Len(stacks[c]))

\* C18: in every stack the piece at index i has z_level i, the top piece is
\* the only one with empty pieces_above, and the above/below references name
\* the pieces above/below in stack order, also after a beetle climbed onto or
\* left a stack.
C18_StackLinks ==
    /\ \A c \in DOMAIN stacks : \A i \in 1..Len(stacks[c]) :
           /\ z_level[stacks[c][i]] = i - 1
           /\ (pieces_above[stacks[c][i]] = <<>>) <=> (i = Len(stacks[c]))
    /\ DirectReferences \/ FullReferences

\* C19: players act alternately: current_team is white at even turn counters
\* and black at odd ones, and apply_turn rejects every place or move turn
\* whose player is not current_team.
C19_PlayersAlternate ==
    /\ current_team = (IF turn % 2 = 0 THEN "white" ELSE "black")
    /\ \A t \in PlaceInputs(World) \cup MoveInputs(World) :
           t.player # current_team => apply_turn(World, t).err # "ok"

\* C20: once check_win_condition reports a winner, apply_turn applies no
\* further place or move turn: the pieces stay where they are.
C20_NoTurnAfterWin ==
    [][check_win_condition(World) # NoTeam =>
           /\ hex' = hex
           /\ location' = location
           /\ stacks' = stacks]_vars

\* The place turn names, by id or by type, a piece of its player that is not
\* the queen
NamesOwnNonQueen(t) ==
    IF t.piece_id # NoId
    THEN /\ t.piece_id \in Range(PlayerPieces(World, t.player))
         /\ PieceClass(t.piece_id) # "QueenBee"
    ELSE t.piece_type \notin {NoType, "queenbee", "queen"}

\* C21, as stated: on turn 0, placing a piece that is not the queen at the
\* origin is rejected.
C21_AsStated ==
    turn = 0 =>
        \A t \in PlaceInputs(World) :
            (NamesOwnNonQueen(t) /\ t.target_coordinates = Origin) =>
                apply_turn(World, t).err # "ok"

\* C21, amended: on turn 0, placing a piece that is not the queen is accepted
\* at the origin, where the piece then is, and rejected at every other hex.
C21_NonQueenFirst ==
    turn = 0 =>
        \A t \in PlaceInputs(World) :
            NamesOwnNonQueen(t) =>
                IF t.target_coordinates = Origin
                THEN /\ apply_turn(World, t).err = "ok"
                     /\ \E p \in PlacedBy(t) :
                            /\ PieceClass(p) # "QueenBee"
                            /\ apply_turn(World, t).w.stacks[Origin] = <<p>>
                ELSE Rejected(t)

\* The game's first turn put a beetle on the origin.
C21_Witness ==
    /\ turn = 1
    /\ result = "ok"
    /\ Origin \in DOMAIN stacks
    /\ PieceClass(stacks[Origin][1]) = "Beetle"

\* The piece cannot be taken from its hex: it is off the board, or carries a
\* piece, or fails the connectivity test, or the hexes of the other pieces
\* fall apart without it
Stuck(p) ==
    \/ location[p] # "board"
    \/ pieces_above[p] # <<>>
    \/ ~hive_stays_connected(World, p)
    \/ ~HexesConnected(p)

\* C22: an Ant, Spider, Grasshopper or Queen that is off the board, pinned, or
\* needed to keep the hive connected has no legal destination, and apply_turn
\* accepts no move of it.
C22_NoMoveWhenStuck ==
    (/\ answer.fn = "get_valid_moves"
     /\ PieceClass(Asker) # "Beetle"
     /\ Stuck(Asker)) =>
        /\ answer.value = {}
        /\ \A c \in MoveHexes :
               apply_turn(World, EndMove(PieceTeam(Asker), Asker, c)).err # "ok"

\* The queen at the origin holds two pieces together and has no destination,
\* though a hex next to it is free to slide to.
C22_Witness ==
    /\ answer.fn = "get_valid_moves"
    /\ Asker = 1
    /\ pieces_above[1] = <<>>
    /\ ~HexesConnected(1)
    /\ answer.value = {}
    /\ get_valid_slide_positions(Origin, OthersHexes(1)) # {}

\* The directions from piece p's hex that lead to an occupied hex
ClimbDirections(p) == {i \in 1..6 : Along(hex[p], i, 1) \in OthersHexes(p)}

\* The directions from piece p's hex that lead to an unoccupied hex through an
\* open gate
SlideDirections(p) ==
    {i \in 1..6 :
        /\ Along(hex[p], i, 1) \notin OthersHexes(p)
        /\ ~(LeftOf(hex[p], i) \in OthersHexes(p) /\ RightOf(hex[p], i) \in OthersHexes(p))}

C24_QueenSlides ==
    (/\ answer.fn = "get_valid_moves"
     /\ PieceClass(Asker) = "QueenBee"
     /\ Movable(Asker)) =>
        /\ answer.value = Steps(hex[Asker], OthersHexes(Asker))
        /\ answer.value = get_valid_slide_positions(hex[Asker], OthersHexes(Asker))

\* C25: get_valid_slide_positions(current, occupied) returns exactly the hexes
\* h adjacent to current that are not occupied, have fewer than two of the two
\* mutual neighbours of current and h occupied, and have an occupied neighbour.
C25_ValidSlidePositions ==
    answer.fn = "get_valid_slide_positions" =>
        LET current == answer.arg[1]
            occupied == answer.arg[2]
        IN  /\ answer.value \subseteq {Along(current, i, 1) : i \in 1..6}
            /\ \A i \in 1..6 :
                   Along(current, i, 1) \in answer.value <=>
                       /\ Along(current, i, 1) \notin occupied
                       /\ Cardinality({LeftOf(current, i), RightOf(current, i)}
                                          \cap occupied) < 2
                       /\ \E k \in 1..6 : Along(Along(current, i, 1), k, 1) \in occupied

\* Some hexes are returned, while a free hex behind an open gate is not, for
\* it has no occupied neighbour.
C25_Witness ==
    /\ answer.fn = "get_valid_slide_positions"
    /\ answer.value # {}
    /\ \E i \in 1..6 :
           /\ Along(answer.arg[1], i, 1) \notin answer.arg[2] \cup answer.value
           /\ Cardinality({LeftOf(answer.arg[1], i), RightOf(answer.arg[1], i)}
                              \cap answer.arg[2]) < 2

\* The hexes a piece may be put on: the origin on an empty board, else the
\* unoccupied hexes next to an occupied one
OpenHexes ==
    IF OccupiedHexes = {} THEN {Origin}
    ELSE {Along(h, i, 1) : h \in OccupiedHexes, i \in 1..6} \ OccupiedHexes

\* C26: check_queen_placement_loss returns a winner only when the active
\* player's queen is off the board and turn // 2 >= 4; it then returns the
\* opponent of current_team iff no available hex validates a queen placement
\* by the active player; in every other state it returns no winner.
C26_QueenPlacementLoss ==
    queen_loss =
        IF /\ location[QueenOf(current_team)] = "offboard"
           /\ turn \div 2 >= 4
           /\ \A c \in OpenHexes :
                  apply_turn(World, QueenPlacement(current_team, c)).err # "ok"
        THEN Other(current_team)
        ELSE NoTeam

\* White is to act at turn 8 with its queen off a board that holds pieces, and
\* black is reported as the winner.
C26_Witness ==
    /\ turn = 8
    /\ location[1] = "offboard"
    /\ OccupiedHexes # {}
    /\ queen_loss = "black"

\* C27: an applied move relocates exactly the named piece: its coordinate is
\* the target, it is the top of the target's stack with z_level the number of
\* pieces that were at the target, it is no longer in its old stack, and every
\* other piece keeps its coordinate and location.
C27_MoveRelocatesOnePiece ==
    \A t \in MoveInputs(World) :
        LET after == apply_turn(World, t).w
            p == t.piece_id
            target == t.target_coordinates
        IN  apply_turn(World, t).err = "ok" =>
                /\ after.hex[p] = target
                /\ after.location[p] = "board"
                /\ target \in DOMAIN after.stacks
                /\ Last(after.stacks[target]) = p
                /\ after.z_level[p] = Cardinality({x \in OnBoard : hex[x] = target})
                /\ after.z_level[p] = Len(after.stacks[target]) - 1
                /\ hex[p] \in DOMAIN after.stacks => p \notin Range(after.stacks[hex[p]])
                /\ \A x \in DOMAIN hex \ {p} :
                       after.hex[x] = hex[x] /\ after.location[x] = location[x]

\* A move has been applied: a beetle climbed onto another piece and is the
\* top of its stack.
C27_Witness ==
    /\ result = "ok"
    /\ \E p \in OnBoard :
           /\ z_level[p] = 1
           /\ Len(stacks[hex[p]]) = 2
           /\ stacks[hex[p]][2] = p

\* The number of pieces on the board in game w
BoardCount(w) == Cardinality({p \in DOMAIN w.location : w.location[p] = "board"})

\* C28: pieces never leave the board; each applied placement adds exactly one
\* piece to it, one that was off the board, and an applied move or forfeit
\* leaves the number of on-board pieces as it was.
C28_PiecesStayOnBoard ==
    /\ [](/\ \A t \in PlaceInputs(World) :
                 apply_turn(World, t).err = "ok" =>
                     /\ BoardCount(apply_turn(World, t).w) = BoardCount(World) + 1
                     /\ t.piece_id # NoId => location[t.piece_id] = "offboard"
          /\ \A t \in MoveInputs(World) \cup OtherInputs({"forfeit"}) :
                 apply_turn(World, t).err = "ok" =>
                     BoardCount(apply_turn(World, t).w) = BoardCount(World))
    /\ [][\A p \in DOMAIN location :
              location[p] = "board" => location'[p] = "board"]_vars

\* All four pieces are on the board, and turns went on being applied.
C28_Witness ==
    /\ BoardCount(World) = 4
    /\ turn > 4
    /\ result = "ok"

HintClass(piece_type) ==
    CASE piece_type = "ant" -> "Ant"
      [] piece_type = "beetle" -> "Beetle"
      [] piece_type = "queenbee" -> "QueenBee"

\* The places in `team`'s inventory of its off-board pieces of the hinted type
HintedPlaces(team, piece_type) ==
    {i \in 1..Len(PlayerPieces(World, team)) :
        /\ PieceClass(PlayerPieces(World, team)[i]) = HintClass(piece_type)
        /\ location[PlayerPieces(World, team)[i]] = "offboard"}

\* The first of them
FirstHinted(team, piece_type) ==
    PlayerPieces(World, team)[CHOOSE i \in HintedPlaces(team, piece_type) :
                                  \A j \in HintedPlaces(team, piece_type) : i <= j]

\* The place turns that name no piece
HintTurns ==
    [player : Teams, piece_id : {NoId}, piece_type : EndTypeHints \cup {NoType},
     action_type : {"place"}, target_coordinates : EndHexes]

\* C30: a placement given only a type hint resolves to the first off-board
\* piece of that type in the acting player's own inventory and is rejected
\* when the player has none; one with neither id nor hint is rejected.
C30_TypeHintResolves ==
    \A t \in HintTurns :
        IF t.piece_type = NoType THEN Rejected(t)
        ELSE IF HintedPlaces(t.player, t.piece_type) = {} THEN Rejected(t)
        ELSE /\ validate_placement(World, t).piece_id
                    = FirstHinted(t.player, t.piece_type)
             /\ apply_turn(World, t).err = "ok" =>
                    PlacedBy(t) = {FirstHinted(t.player, t.piece_type)}

\* Black's first ant is on the board: a hint for an ant now resolves to the
\* second one, and is accepted on some hex; white has no ant left.
C30_Witness ==
    /\ location[10] = "board"
    /\ result = "ok"
    /\ HintedPlaces("white", "ant") = {}
    /\ \E t \in HintTurns :
           /\ t.player = "black"
           /\ t.piece_type = "ant"
           /\ apply_turn(World, t).err = "ok"
           /\ PlacedBy(t) = {11}

C32_HexGeometry ==
    /\ answer.fn = "HexCoordinate" =>
           /\ (answer.value.err = "ValueError") <=>
                  (answer.arg[1] + answer.arg[2] + answer.arg[3] # 0)
           /\ answer.value.err = "ok" => answer.value.value = answer.arg
    /\ answer.fn = "get_adjacent_hexes" =>
           /\ Len(answer.value) = 6
           /\ \A i \in 1..6 :
                  /\ answer.value[i].err = "ok"
                  /\ answer.value[i].value[1] + answer.value[i].value[2]
                         + answer.value[i].value[3] = 0
           /\ Cardinality({answer.value[i].value : i \in 1..6}) = 6
    /\ answer.fn = "are_hexes_adjacent" =>
           /\ answer.value <=> (answer.arg[2] \in Range(get_adjacent_hexes(answer.arg[1])))
           /\ answer.value <=> are_hexes_adjacent(answer.arg[2], answer.arg[1])
           /\ answer.arg[1] = answer.arg[2] => ~answer.value

\* are_hexes_adjacent answered True for two coordinates away from the origin.
C32_Witness ==
    /\ answer.fn = "are_hexes_adjacent"
    /\ answer.value = TRUE
    /\ Origin \notin {answer.arg[1], answer.arg[2]}

\* C33: a place or move turn that passes its validation is applied to
\* completion: apply_turn raises nothing and the turn counter advances by one
\* (a move of the top beetle off a stack of three, and a placement at the
\* origin at turn 0 whatever piece id it supplies, among them).
C33_ValidatedTurnCompletes ==
    /\ \A t \in PlaceInputs(World) :
           validate_placement(World, t).err = "ok" =>
               /\ apply_turn(World, t).err = "ok"
               /\ apply_turn(World, t).w.turn = turn + 1
    /\ \A t \in MoveInputs(World) :
           validate_movement(World, t) = "ok" =>
               /\ apply_turn(World, t).err = "ok"
               /\ apply_turn(World, t).w.turn = turn + 1

\* C34: a placement only puts one of the acting player's own pieces on the
\* board: a place turn whose piece_id names a piece of the other team, or no
\* piece at all, is rejected, at turn 0 as at any later turn.
C34_PlacesOwnPiecesOnly ==
    \A t \in PlaceInputs(World) :
        (t.piece_id # NoId /\ (t.piece_id \notin all_pieces(World)
                                \/ PieceTeam(t.piece_id) # t.player)) =>
            Rejected(t)

\* C35: on a board that holds a stack of two or more pieces, for every piece p
\* hive_stays_connected(p) is true exactly when the coordinates occupied by the
\* on-board pieces other than p form one connected set, whatever the order in
\* which the pieces came onto the board.
C35_StacksDoNotDistort ==
    (\E c \in DOMAIN stacks : Len(stacks[c]) >= 2) =>
        \A p \in DOMAIN location :
            hive_stays_connected(World, p) <=> HexesConnected(p)

\* C36: a player that has completed 4 own turns, none of them a forfeit, has
\* its queen on the board. (Under SpecOwnTurns no turn is a forfeit and the
\* players alternate, so white has completed 4 own turns once the turn counter
\* is 7, black once it is 8.)
C36_QueenByFourthOwnTurn ==
    /\ turn >= 7 => location[QueenOf("white")] = "board"
    /\ turn >= 8 => location[QueenOf("black")] = "board"

\* C37: when both queens are on the board and each has all six adjacent hexes
\* occupied, check_win_condition returns 'black' (the white queen is examined
\* first): not 'white', and not no winner.
C37_BothSurroundedIsBlack ==
    (result = "checked" /\ Surrounded(QueenOf("white")) /\ Surrounded(QueenOf("black"))) =>
        (win = "black" /\ win # "white" /\ win # NoTeam)

\* Both queens, side by side, are surrounded, and check_win_condition was asked.
C37_Witness ==
    /\ result = "checked"
    /\ Surrounded(QueenOf("white"))
    /\ Surrounded(QueenOf("black"))
    /\ are_hexes_adjacent(hex[QueenOf("white")], hex[QueenOf("black")])
    /\ win = "black"

====
